---- MODULE Spec2Model ----
(***************************************************************************)
(* Model of the conditional DDPM of AutoEncoder_Example.ipynb: the         *)
(* module-level noise schedule (T, beta1, beta2, beta_t ... sigma_t), the  *)
(* training forward pass DDPM.forward and the reverse loop DDPM.sample,    *)
(* with the U-Net denoiser as an external callable.                        *)
(* The dataset restructuring cell of the notebooks (root_dir, 'fakeclass')  *)
(* is modelled on its own, as RestructureSpec.                             *)
(* The training loop of Simple_GAN_Example.ipynb (optimiser steps, G's     *)
(* mode, the per-epoch log line) is modelled on its own, as GanSpec.       *)
(*                                                                         *)
(* Numbers are exact: a finite value is (n/d)*sqrt(rn/rd) with integer     *)
(* n, d, rn, rd; nan, inf and -inf are the IEEE special values torch       *)
(* produces instead of raising; a "log" value is log(n/d).  float32        *)
(* rounding is not modelled.                                               *)
(***************************************************************************)
EXTENDS Integers, Sequences, FiniteSets, TLC

(* ---------------------------- bounds ----------------------------------- *)
MaxT == 3
BetaDen == 3
MaxN == 2
MaxBatch == 2
NumNoise == 1
NumEps == 1
\* entries of the dataset root besides the name 'fakeclass', and the number
\* of times the restructuring cell is run
MaxFiles == 3
MaxRuns == 2
\* the GAN training loop: epochs run (the notebook's 20000), batches the
\* train_loader yields per epoch, and the largest loss value
MaxEpoch == 2
MaxBatches == 2
MaxLoss == 1

(* ------------------------ program constants ---------------------------- *)
NumClasses == 10

(* ------------------------- exact arithmetic ---------------------------- *)
Abs(n) == IF n < 0 THEN -n ELSE n

RECURSIVE GCD(_, _)
GCD(a, b) == IF b = 0 THEN a ELSE GCD(b, a % b)

Fin(n, d, rn, rd) ==
    LET s  == IF d < 0 THEN -1 ELSE 1
        g  == GCD(Abs(n), Abs(d))
        rg == GCD(rn, rd)
    IN  IF n = 0 \/ rn = 0
        THEN [k |-> "fin", n |-> 0, d |-> 1, rn |-> 1, rd |-> 1]
        ELSE [k |-> "fin", n |-> s * (n \div g), d |-> s * (d \div g),
              rn |-> rn \div rg, rd |-> rd \div rg]

Rat(n, d) == Fin(n, d, 1, 1)
NaN    == [k |-> "nan",  n |-> 0, d |-> 1, rn |-> 1, rd |-> 1]
PosInf == [k |-> "inf",  n |-> 0, d |-> 1, rn |-> 1, rd |-> 1]
NegInf == [k |-> "ninf", n |-> 0, d |-> 1, rn |-> 1, rd |-> 1]
Zero   == Rat(0, 1)
One    == Rat(1, 1)

IsFin(a) == a.k = "fin"
IsRat(a) == a.k = "fin" /\ a.rn = 1 /\ a.rd = 1
Sign(a)  == IF a.n > 0 THEN 1 ELSE IF a.n < 0 THEN -1 ELSE 0

\* a + b and a - b on rationals; nan is absorbing
Add(a, b) ==
    IF IsRat(a) /\ IsRat(b) THEN Rat(a.n * b.d + b.n * a.d, a.d * b.d)
    ELSE IF a.k = "nan" \/ b.k = "nan" THEN NaN
    ELSE IF IsFin(a) THEN b
    ELSE IF IsFin(b) THEN a
    ELSE IF a.k = b.k THEN a ELSE NaN

Neg(a) ==
    IF IsFin(a) THEN Fin(-a.n, a.d, a.rn, a.rd)
    ELSE IF a.k = "inf" THEN NegInf
    ELSE IF a.k = "ninf" THEN PosInf
    ELSE NaN

Sub(a, b) == Add(a, Neg(b))

\* a * b on finite values with at most one radical
Mul(a, b) ==
    IF IsFin(a) /\ IsFin(b)
    THEN Fin(a.n * b.n, a.d * b.d, a.rn * b.rn, a.rd * b.rd)
    ELSE NaN

\* a / b with the IEEE results for a zero divisor: 0/0 = nan, x/0 = +-inf
Div(a, b) ==
    IF ~(IsFin(a) /\ IsFin(b)) THEN NaN
    ELSE IF b.n = 0
         THEN IF a.n = 0 THEN NaN ELSE IF a.n > 0 THEN PosInf ELSE NegInf
    ELSE \* (an/ad) / ((bn/bd) sqrt(r)) = (an bd rd / (ad bn rn)) sqrt(r)
         Fin(a.n * b.d * b.rd, a.d * b.n * b.rn, a.rn * b.rn, a.rd * b.rd)

\* torch.sqrt: nan below zero
Sqrt(a) ==
    IF IsRat(a)
    THEN IF a.n < 0 THEN NaN ELSE Fin(1, 1, a.n, a.d)
    ELSE IF a.k = "inf" THEN PosInf ELSE NaN

\* torch.log: -inf at zero, nan below zero
Log(a) ==
    IF IsRat(a)
    THEN IF a.n < 0 THEN NaN
         ELSE IF a.n = 0 THEN NegInf
         ELSE [k |-> "log", n |-> a.n, d |-> a.d, rn |-> 1, rd |-> 1]
    ELSE IF a.k = "inf" THEN PosInf ELSE NaN

\* sum of two logarithms: log p + log q = log(pq)
LogAdd(a, b) ==
    IF a.k = "nan" \/ b.k = "nan" THEN NaN
    ELSE IF a.k = "log" /\ b.k = "log"
         THEN LET r == Rat(a.n * b.n, a.d * b.d)
              IN  [k |-> "log", n |-> r.n, d |-> r.d, rn |-> 1, rd |-> 1]
    ELSE IF a.k = "log" THEN b
    ELSE IF b.k = "log" THEN a
    ELSE IF a.k = b.k THEN a ELSE NaN

\* torch.exp: exp(log r) = r, exp(-inf) = 0
ExpOfNegated(a) ==
    IF a.k = "log" THEN Rat(a.d, a.n)
    ELSE IF a.k = "ninf" THEN PosInf
    ELSE IF a.k = "inf" THEN Zero
    ELSE NaN
Exp(a) ==
    IF a.k = "log" THEN Rat(a.n, a.d)
    ELSE IF a.k = "ninf" THEN Zero
    ELSE IF a.k = "inf" THEN PosInf
    ELSE NaN

\* a < b on rationals
RatLt(a, b) == a.n * b.d < b.n * a.d

(* ----------------------------- inputs ----------------------------------- *)
\* hyperparameters tried for T, beta1, beta2 (valid and invalid ones)
TValues    == -2 .. MaxT
BetaValues == { Rat(n, BetaDen) : n \in -1 .. (BetaDen + 1) }
\* n_sample of a sampling call
NSamples   == (1 .. MaxN) \cup {NumClasses + 1}
\* values a torch.randn / torch.randn_like draw can take
Noise      == 1 .. NumNoise
\* values the denoiser can return
EpsOut     == 1 .. NumEps
\* a training batch of B (image, label) pairs from the loader: the images
\* are opaque, the labels are class indices
Images(B)  == [b \in 1 .. B |-> [op |-> "image", b |-> b]]
LabelBatches(B) ==
    { [b \in 1 .. B |-> (l + b - 1) % NumClasses] : l \in {0, NumClasses - 1} }

VARIABLES pc, error, T, beta1, beta2,
          beta_t, alpha_t, log_alpha_t, alphabar_t, sqrtab, sqrtmab,
          oneover_sqrta, mab_over_sqrtmab_inv, sigma_t,
          n_sample, i, x_i, trace, condition,
          fwd, idx_read,
          cell, runs, root_files, root_dirs, fakeclass, listing, root0,
          gan_pc, epoch, num_batches, batch_i, G_training, grad_G, grad_D,
          loss_d, loss_g, gen_loss_arr, dis_loss_arr, steps, printed

hyper == <<T, beta1, beta2>>
sched == <<beta_t, alpha_t, log_alpha_t, alphabar_t, sqrtab, sqrtmab,
           oneover_sqrta, mab_over_sqrtmab_inv, sigma_t>>
smp   == <<n_sample, i, x_i, trace, condition>>
\* the dataset root on disk and the restructuring cell's position
disk  == <<cell, runs, root_files, root_dirs, fakeclass, listing, root0>>
ddpm  == <<pc, error, hyper, sched, smp, fwd, idx_read>>
\* the GAN notebook's training state
gan   == <<gan_pc, epoch, num_batches, batch_i, G_training, grad_G, grad_D,
           loss_d, loss_g, gen_loss_arr, dis_loss_arr, steps, printed>>
vars  == <<pc, error, hyper, sched, smp, fwd, idx_read, disk, gan>>

NoTensor == [op |-> "none"]
NoFwd    == [op |-> "none"]

(* ----------------------- schedule construction ------------------------- *)
\* torch.arange(0, T + 1) raises RuntimeError when the upper bound is below 0
ArangeRaises(t) == t + 1 < 0

\* the indices of torch.arange(0, T + 1): every schedule tensor is built
\* elementwise from it
ArangeTExcl(t) == 0 .. (t - 1)
ArangeT(t) == 0 .. t

\* (beta2 - beta1) * arange(0, T + 1) / T + beta1, element t
BetaAtOverLength(t, tt, b1, b2) ==
    Add(Div(Mul(Sub(b2, b1), Rat(t, 1)), Rat(tt + 1, 1)), b1)
BetaAt(t, tt, b1, b2) ==
    Add(Div(Mul(Sub(b2, b1), Rat(t, 1)), Rat(tt, 1)), b1)

\* torch.cumsum(f, dim=0)[t]: f[0] + ... + f[t], first element included
RECURSIVE CumSumExcl(_, _)
CumSumExcl(f, t) == IF t = 0 THEN Log(One) ELSE LogAdd(CumSumExcl(f, t - 1), f[t])

RECURSIVE CumSum(_, _)
CumSum(f, t) == IF t = 0 THEN f[0] ELSE LogAdd(CumSum(f, t - 1), f[t])

Construct ==
    /\ pc = "config"
    /\ IF ArangeRaises(T)
       THEN /\ pc' = "config_error"
            /\ error' = "RuntimeError"
            /\ UNCHANGED sched
       ELSE LET bt  == [t \in ArangeT(T) |-> BetaAt(t, T, beta1, beta2)]
                at  == [t \in ArangeT(T) |-> Sub(One, bt[t])]
                lat == [t \in ArangeT(T) |-> Log(at[t])]
                abt == [t \in ArangeT(T) |-> Exp(CumSum(lat, t))]
                sab == [t \in ArangeT(T) |-> Sqrt(abt[t])]
                smb == [t \in ArangeT(T) |-> Sqrt(Sub(One, abt[t]))]
            IN  /\ beta_t' = bt
                /\ alpha_t' = at
                /\ log_alpha_t' = lat
                /\ alphabar_t' = abt
                /\ sqrtab' = sab
                /\ sqrtmab' = smb
                /\ oneover_sqrta' = [t \in ArangeT(T) |-> Div(One, Sqrt(at[t]))]
                /\ mab_over_sqrtmab_inv' =
                       [t \in ArangeT(T) |-> Div(Sub(One, at[t]), smb[t])]
                /\ sigma_t' = [t \in ArangeT(T) |-> Sqrt(bt[t])]
                /\ pc' = "idle"
                /\ UNCHANGED error
    /\ UNCHANGED <<hyper, smp, fwd, idx_read, disk, gan>>

(* ------------------------------ denoiser ------------------------------- *)
\* F.one_hot(c, num_classes=10) raises when a label is not a class index
OneHotRaises(c) == \E b \in DOMAIN c : c[b] < 0 \/ c[b] >= NumClasses

\* torch.arange(n): the labels 0 .. n-1 of samples 1 .. n
Arange(n) == [b \in 1 .. n |-> b - 1]

\* the arguments self.net receives in sample (UNet.forward(x, c))
SampleNetArgsByStep(x, n, step) == [x |-> x, c |-> Arange(step)]
SampleNetArgs(x, n, step) == [x |-> x, c |-> Arange(n)]

\* the arguments self.net receives in forward
ForwardNetArgs(xt, c, ts) == [x |-> xt, c |-> c]

(* ------------------------------ forward -------------------------------- *)
\* the notebook is between calls: ddpm exists and no call is running
AtTopLevel == pc = "idle"

\* torch.randint(1, T+1, ...) raises RuntimeError unless 1 < T+1
RandintRaises == ~(1 < T + 1)
TsRangeFromZero == 0 .. T
TsRange == 1 .. T

\* x_t = sqrtab[_ts] * x + sqrtmab[_ts] * eps, element b
CorruptSwapped(x, ts, eps) ==
    [b \in DOMAIN x |->
        [op |-> "corrupt", a |-> sqrtmab[ts[b]], x |-> x[b],
         m |-> sqrtab[ts[b]], eps |-> eps[b]]]
CorruptSharedTs(x, ts, eps) ==
    [b \in DOMAIN x |->
        [op |-> "corrupt", a |-> sqrtab[ts[1]], x |-> x[b],
         m |-> sqrtmab[ts[1]], eps |-> eps[b]]]
CorruptNoiseUnscaled(x, ts, eps) ==
    [b \in DOMAIN x |->
        [op |-> "corrupt", a |-> sqrtab[ts[b]], x |-> x[b],
         m |-> One, eps |-> eps[b]]]
Corrupt(x, ts, eps) ==
    [b \in DOMAIN x |->
        [op |-> "corrupt", a |-> sqrtab[ts[b]], x |-> x[b],
         m |-> sqrtmab[ts[b]], eps |-> eps[b]]]

Forward ==
    /\ AtTopLevel
    /\ \E B \in 1 .. MaxBatch :
       \E x \in {Images(B)}, c \in LabelBatches(B) :
          IF RandintRaises
          THEN /\ pc' = "raised"
               /\ error' = "RuntimeError"
               /\ fwd' = NoFwd
               /\ idx_read' = {}
          ELSE \E ts \in [1 .. B -> TsRange], eps \in [1 .. B -> Noise] :
               LET xt   == Corrupt(x, ts, eps)
                   args == ForwardNetArgs(xt, c, ts)
               IN  /\ idx_read' = {ts[b] : b \in 1 .. B}
                   /\ \/ /\ ~OneHotRaises(args.c)
                         /\ \E out \in EpsOut :
                               fwd' = [op |-> "forward", x |-> x, c |-> c,
                                       ts |-> ts, eps |-> eps, call |-> args,
                                       loss |-> [op |-> "mse_loss", a |-> eps,
                                                 b |-> out]]
                         /\ pc' = "forward_done"
                         /\ error' = "none"
                      \/ /\ fwd' = [op |-> "forward", x |-> x, c |-> c,
                                    ts |-> ts, eps |-> eps, call |-> args,
                                    loss |-> [op |-> "none"]]
                         /\ pc' = "raised"
                         /\ error' = "DenoiserError"
    /\ n_sample' = 0 /\ i' = 0 /\ x_i' = NoTensor /\ trace' = <<>>
    /\ condition' = <<>>
    /\ UNCHANGED <<hyper, sched, disk, gan>>

(* ------------------------------- sample -------------------------------- *)
\* torch.randn(n_sample, *size): a fresh standard-normal tensor
Randn(v, n) == [op |-> "randn", v |-> v, n |-> n]

\* z = torch.randn(n_sample, *size) if i > 1 else 0
ZAlwaysDrawn(step, v, n) == Randn(v, n)
ZOf(step, v, n) == IF step > 1 THEN Randn(v, n) ELSE [op |-> "const", v |-> 0, n |-> 0]

\* for i in range(T, 0, -1): the loop continues while the index is above 0
RangeHasNextInclZero(step) == step >= 0
RangeHasNext(step) == step > 0
RangeNextSkip(step) == step - 2
RangeNext(step) == step - 1

\* x_i = oneover_sqrta[i] * (x_i - eps * mab_over_sqrtmab_inv[i]) + sigma_t[i] * z
ReverseStepPrevIndex(x, eps, z, step) ==
    [op |-> "reverse", a |-> oneover_sqrta[step - 1], x |-> x, eps |-> eps,
     m |-> mab_over_sqrtmab_inv[step - 1], s |-> sigma_t[step - 1], z |-> z]
ReverseStep(x, eps, z, step) ==
    [op |-> "reverse", a |-> oneover_sqrta[step], x |-> x, eps |-> eps,
     m |-> mab_over_sqrtmab_inv[step], s |-> sigma_t[step], z |-> z]

\* sample(n_sample, size): the signature has no condition parameter; the
\* variable condition holds the labels the caller would like its samples
\* conditioned on, which the call cannot pass.
SampleBegin ==
    /\ AtTopLevel
    /\ \E n \in NSamples, v \in Noise :
          /\ n_sample' = n
          /\ x_i' = Randn(v, n)
          /\ \E c \in {Arange(n), [b \in 1 .. n |-> (n - b + 1) % NumClasses]} :
                condition' = c
    /\ i' = T
    /\ trace' = <<>>
    /\ pc' = "sample_loop"
    /\ error' = "none"
    /\ fwd' = NoFwd
    /\ idx_read' = {}
    /\ UNCHANGED <<hyper, sched, disk, gan>>

\* the loop body indexes oneover_sqrta, mab_over_sqrtmab_inv and sigma_t at
\* i and assigns none of the schedule tensors
StepScheduleInPlace(step) ==
    /\ sigma_t' = [sigma_t EXCEPT ![step] = Zero]
    /\ UNCHANGED <<beta_t, alpha_t, log_alpha_t, alphabar_t, sqrtab, sqrtmab,
                   oneover_sqrta, mab_over_sqrtmab_inv>>
StepSchedule(step) == UNCHANGED sched

\* self.net raises inside the loop body: no except clause, the exception
\* leaves the loop and sample
NetRaisedSwallowed(entry) ==
    /\ trace' = Append(trace, entry)
    /\ i' = RangeNext(i)
    /\ UNCHANGED <<pc, error, x_i, idx_read>>
NetRaised(entry) ==
    /\ trace' = Append(trace, entry)
    /\ pc' = "raised"
    /\ error' = "DenoiserError"
    /\ UNCHANGED <<i, x_i, idx_read>>

SampleStep ==
    /\ pc = "sample_loop"
    /\ RangeHasNext(i)
    /\ \E v \in Noise :
       LET z    == ZOf(i, v, n_sample)
           args == SampleNetArgs(x_i, n_sample, i)
       IN  \/ /\ ~OneHotRaises(args.c)
              /\ \E eps \in EpsOut :
                    /\ x_i' = ReverseStep(x_i, eps, z, i)
                    /\ trace' = Append(trace, [i |-> i, z |-> z, call |-> args,
                                               ret |-> TRUE, eps |-> eps])
              /\ idx_read' = idx_read \cup {i}
              /\ i' = RangeNext(i)
              /\ UNCHANGED <<pc, error>>
           \/ NetRaised([i |-> i, z |-> z, call |-> args,
                         ret |-> FALSE, eps |-> 0])
    /\ StepSchedule(i)
    /\ UNCHANGED <<hyper, n_sample, condition, fwd, disk, gan>>

\* return x_i
SampleReturn ==
    /\ pc = "sample_loop"
    /\ ~RangeHasNext(i)
    /\ pc' = "sample_done"
    /\ UNCHANGED <<error, hyper, sched, smp, fwd, idx_read, disk, gan>>

\* the caller is done with the call: the training step finishes (optimiser
\* update and progress print), the samples are plotted, or the exception
\* ends the cell; the locals of the call are gone.
CellEnd ==
    /\ pc \in {"forward_done", "sample_done", "raised"}
    /\ pc' = "idle"
    /\ error' = "none"
    /\ n_sample' = 0 /\ i' = 0 /\ x_i' = NoTensor /\ trace' = <<>>
    /\ condition' = <<>>
    /\ fwd' = NoFwd
    /\ idx_read' = {}
    /\ UNCHANGED <<hyper, sched, disk, gan>>

(* ------------------- dataset restructuring cell ------------------------ *)
\* names an entry of root_dir can have: 'fakeclass' and MaxFiles others
EntryNames == {"fakeclass"} \cup { ToString(k) : k \in 1 .. MaxFiles }

\* os.makedirs(path, exist_ok=True) raises FileExistsError when the path
\* exists and is not a directory
MakedirsRaises(name) == name \in root_files

\* os.listdir(root_dir)
ListDir == root_files \cup root_dirs

\* the cell up to the for loop: list the subdirectories; with none, create
\* 'fakeclass' and list root_dir for the loop; otherwise print and finish
RestructureBegin ==
    /\ cell = "top"
    /\ LET subdirectories == { d \in ListDir : d \in root_dirs }
       IN  IF subdirectories = {}
           THEN IF MakedirsRaises("fakeclass")
                THEN /\ cell' = "cell_raised"
                     /\ UNCHANGED <<root_dirs, listing>>
                ELSE /\ root_dirs' = root_dirs \cup {"fakeclass"}
                     /\ listing' = root_files \cup root_dirs'
                     /\ cell' = "loop"
           ELSE /\ cell' = "cell_done"
                /\ UNCHANGED <<root_dirs, listing>>
    /\ runs' = runs + 1
    /\ UNCHANGED <<root_files, fakeclass, root0, ddpm, gan>>

\* one iteration of the for loop, in the order os.listdir happened to give:
\* a regular file is moved into 'fakeclass' under its own name
MoveFile(file_name) ==
    /\ fakeclass' = fakeclass \cup {file_name}
    /\ root_files' = root_files \ {file_name}

RestructureMove ==
    /\ cell = "loop"
    /\ \E file_name \in listing :
          /\ listing' = listing \ {file_name}
          /\ IF file_name \in root_files
             THEN MoveFile(file_name)
             ELSE UNCHANGED <<root_files, fakeclass>>
    /\ UNCHANGED <<cell, runs, root_dirs, root0, ddpm, gan>>

\* the loop is exhausted: print and finish
RestructureEnd ==
    /\ cell = "loop" /\ listing = {}
    /\ cell' = "cell_done"
    /\ UNCHANGED <<runs, root_files, root_dirs, fakeclass, listing, root0, ddpm, gan>>

\* the cell is run once more
RestructureRerun ==
    /\ cell \in {"cell_done", "cell_raised"}
    /\ runs < MaxRuns
    /\ cell' = "top"
    /\ UNCHANGED <<runs, root_files, root_dirs, fakeclass, listing, root0, ddpm, gan>>

(* -------------------------- GAN training loop -------------------------- *)
\* values a loss .item() can take
LossValues == 0 .. MaxLoss

NoLine == [op |-> "none"]

\* the loss a backward pass starts from, as it is found in a .grad
LossOf(name) == [loss |-> name, epoch |-> epoch, i |-> batch_i]

\* optimiser.zero_grad(): the gradients of the optimiser's parameters are
\* dropped
ZeroGradKeeps(grads) == grads
ZeroGrad(grads) == {}

\* backward accumulates into the .grad of every parameter the loss depends on
Accumulate(grads, name) == grads \cup {LossOf(name)}

\* G.eval() and G.train(): the value of G.training afterwards
ModeAfterEval == FALSE
TrainKeepsMode == G_training
ModeAfterTrain == TRUE

RECURSIVE SumArr(_)
SumArr(arr) == IF arr = <<>> THEN 0 ELSE Head(arr) + SumArr(Tail(arr))

\* ndarray.mean(): nan for an empty array
Mean(arr) == IF arr = <<>> THEN NaN ELSE Rat(SumArr(arr), Len(arr))

\* '{:.3f}'.format(v) for a finite v >= 0: the number of thousandths, to the
\* nearest, ties to even
Format3f(v) ==
    IF ~IsRat(v) THEN -1
    ELSE LET q == (v.n * 1000) \div v.d
             r == (v.n * 1000) % v.d
         IN  IF 2 * r > v.d \/ (2 * r = v.d /\ q % 2 = 1) THEN q + 1 ELSE q

\* while (epoch < 20000): the per-epoch arrays are created empty
GanWhile ==
    /\ gan_pc = "while"
    /\ IF epoch < MaxEpoch
       THEN /\ gen_loss_arr' = <<>> /\ dis_loss_arr' = <<>>
            /\ batch_i' = 0
            /\ printed' = NoLine
            /\ gan_pc' = "for"
       ELSE /\ gan_pc' = "gan_done"
            /\ UNCHANGED <<gen_loss_arr, dis_loss_arr, batch_i, printed>>
    /\ UNCHANGED <<epoch, num_batches, G_training, grad_G, grad_D,
                   loss_d, loss_g, steps, ddpm, disk>>

\* for i, batch in enumerate(train_loader)
GanFor ==
    /\ gan_pc = "for"
    /\ gan_pc' = IF batch_i < num_batches THEN "d_forward" ELSE "eval"
    /\ UNCHANGED <<epoch, num_batches, batch_i, G_training, grad_G, grad_D,
                   loss_d, loss_g, gen_loss_arr, dis_loss_arr, steps, printed,
                   ddpm, disk>>

\* g = G(...); l_r, l_f (on g.detach()); loss_d = (l_r + l_f) / 2.0
DForward ==
    /\ gan_pc = "d_forward"
    /\ loss_d' \in LossValues
    /\ gan_pc' = "d_zero_grad"
    /\ UNCHANGED <<epoch, num_batches, batch_i, G_training, grad_G, grad_D,
                   loss_g, gen_loss_arr, dis_loss_arr, steps, printed,
                   ddpm, disk>>

\* optimiser_D.zero_grad()
DZeroGrad ==
    /\ gan_pc = "d_zero_grad"
    /\ grad_D' = ZeroGrad(grad_D)
    /\ gan_pc' = "d_backward"
    /\ UNCHANGED <<epoch, num_batches, batch_i, G_training, grad_G,
                   loss_d, loss_g, gen_loss_arr, dis_loss_arr, steps, printed,
                   ddpm, disk>>

\* loss_d.backward(): reaches the parameters of D only, the fake images
\* being detached from G
DBackward ==
    /\ gan_pc = "d_backward"
    /\ grad_D' = Accumulate(grad_D, "loss_d")
    /\ gan_pc' = "d_step"
    /\ UNCHANGED <<epoch, num_batches, batch_i, G_training, grad_G,
                   loss_d, loss_g, gen_loss_arr, dis_loss_arr, steps, printed,
                   ddpm, disk>>

\* optimiser_D.step()
DStep ==
    /\ gan_pc = "d_step"
    /\ steps' = Append(steps, [opt |-> "D", epoch |-> epoch, i |-> batch_i,
                               grads |-> grad_D, training |-> G_training])
    /\ gan_pc' = "g_forward"
    /\ UNCHANGED <<epoch, num_batches, batch_i, G_training, grad_G, grad_D,
                   loss_d, loss_g, gen_loss_arr, dis_loss_arr, printed,
                   ddpm, disk>>

\* g = G(...); loss_g = criterion(D(g).mean(), 1)
GForward ==
    /\ gan_pc = "g_forward"
    /\ loss_g' \in LossValues
    /\ gan_pc' = "g_zero_grad"
    /\ UNCHANGED <<epoch, num_batches, batch_i, G_training, grad_G, grad_D,
                   loss_d, gen_loss_arr, dis_loss_arr, steps, printed,
                   ddpm, disk>>

\* optimiser_G.zero_grad()
GZeroGrad ==
    /\ gan_pc = "g_zero_grad"
    /\ grad_G' = ZeroGrad(grad_G)
    /\ gan_pc' = "g_backward"
    /\ UNCHANGED <<epoch, num_batches, batch_i, G_training, grad_D,
                   loss_d, loss_g, gen_loss_arr, dis_loss_arr, steps, printed,
                   ddpm, disk>>

\* loss_g.backward(): through D(g) into the parameters of D and of G
GBackward ==
    /\ gan_pc = "g_backward"
    /\ grad_G' = Accumulate(grad_G, "loss_g")
    /\ grad_D' = Accumulate(grad_D, "loss_g")
    /\ gan_pc' = "g_step"
    /\ UNCHANGED <<epoch, num_batches, batch_i, G_training,
                   loss_d, loss_g, gen_loss_arr, dis_loss_arr, steps, printed,
                   ddpm, disk>>

\* optimiser_G.step()
GStep ==
    /\ gan_pc = "g_step"
    /\ steps' = Append(steps, [opt |-> "G", epoch |-> epoch, i |-> batch_i,
                               grads |-> grad_G, training |-> G_training])
    /\ gan_pc' = "append"
    /\ UNCHANGED <<epoch, num_batches, batch_i, G_training, grad_G, grad_D,
                   loss_d, loss_g, gen_loss_arr, dis_loss_arr, printed,
                   ddpm, disk>>

\* gen_loss_arr = np.append(gen_loss_arr, loss_g.item()), the same for
\* dis_loss_arr and loss_d; the for loop goes to its next batch
AppendLosses ==
    /\ gan_pc = "append"
    /\ gen_loss_arr' = Append(gen_loss_arr, loss_g)
    /\ dis_loss_arr' = Append(dis_loss_arr, loss_d)
    /\ batch_i' = batch_i + 1
    /\ gan_pc' = "for"
    /\ UNCHANGED <<epoch, num_batches, G_training, grad_G, grad_D,
                   loss_d, loss_g, steps, printed, ddpm, disk>>

\* G.eval(); g = G(torch.randn(...))
GEval ==
    /\ gan_pc = "eval"
    /\ G_training' = ModeAfterEval
    /\ gan_pc' = "print"
    /\ UNCHANGED <<epoch, num_batches, batch_i, grad_G, grad_D,
                   loss_d, loss_g, gen_loss_arr, dis_loss_arr, steps, printed,
                   ddpm, disk>>

\* print('loss D: {:.3f}, loss G: {:.3f}'.format(gen_loss_arr.mean(),
\*                                               dis_loss_arr.mean()))
PrintLosses ==
    /\ gan_pc = "print"
    /\ printed' = [op |-> "line", epoch |-> epoch,
                   loss_D |-> Format3f(Mean(gen_loss_arr)),
                   loss_G |-> Format3f(Mean(dis_loss_arr))]
    /\ gan_pc' = "plot"
    /\ UNCHANGED <<epoch, num_batches, batch_i, G_training, grad_G, grad_D,
                   loss_d, loss_g, gen_loss_arr, dis_loss_arr, steps,
                   ddpm, disk>>

\* plt.grid, plt.imshow, plt.show, plt.pause
Plot ==
    /\ gan_pc = "plot"
    /\ gan_pc' = "train"
    /\ UNCHANGED <<epoch, num_batches, batch_i, G_training, grad_G, grad_D,
                   loss_d, loss_g, gen_loss_arr, dis_loss_arr, steps, printed,
                   ddpm, disk>>

\* G.train(); epoch = epoch + 1
GTrain ==
    /\ gan_pc = "train"
    /\ G_training' = ModeAfterTrain
    /\ epoch' = epoch + 1
    /\ gan_pc' = "while"
    /\ UNCHANGED <<num_batches, batch_i, grad_G, grad_D,
                   loss_d, loss_g, gen_loss_arr, dis_loss_arr, steps, printed,
                   ddpm, disk>>

\* the cells before the training loop have run: G and D are fresh modules
\* (training mode, no gradients), epoch = 0
GanFresh ==
    /\ gan_pc = "while" /\ epoch = 0 /\ batch_i = 0
    /\ G_training = TRUE
    /\ grad_G = {} /\ grad_D = {}
    /\ loss_d = 0 /\ loss_g = 0
    /\ gen_loss_arr = <<>> /\ dis_loss_arr = <<>>
    /\ steps = <<>>
    /\ printed = NoLine

(* --------------------------- specification ----------------------------- *)
Init ==
    /\ pc = "config"
    /\ error = "none"
    /\ T \in TValues
    /\ beta1 \in BetaValues
    /\ beta2 \in BetaValues
    /\ beta_t = <<>> /\ alpha_t = <<>> /\ log_alpha_t = <<>>
    /\ alphabar_t = <<>> /\ sqrtab = <<>> /\ sqrtmab = <<>>
    /\ oneover_sqrta = <<>> /\ mab_over_sqrtmab_inv = <<>> /\ sigma_t = <<>>
    /\ n_sample = 0 /\ i = 0 /\ x_i = NoTensor /\ trace = <<>>
    /\ condition = <<>>
    /\ fwd = NoFwd
    /\ idx_read = {}
    /\ cell = "cell_done" /\ runs = 1
    /\ root_files = {} /\ root_dirs = {"fakeclass"} /\ fakeclass = {}
    /\ listing = {} /\ root0 = [files |-> {}, dirs |-> {"fakeclass"}]
    /\ GanFresh /\ num_batches = 1

Next ==
    \/ Construct
    \/ Forward
    \/ SampleBegin
    \/ SampleStep
    \/ SampleReturn
    \/ CellEnd

\* the restructuring cell on its own, before the DDPM cells have run: the
\* root holds any regular files and any subdirectories
RestructureInit ==
    /\ pc = "config"
    /\ error = "none"
    /\ T = 1 /\ beta1 = Rat(1, BetaDen) /\ beta2 = Rat(2, BetaDen)
    /\ beta_t = <<>> /\ alpha_t = <<>> /\ log_alpha_t = <<>>
    /\ alphabar_t = <<>> /\ sqrtab = <<>> /\ sqrtmab = <<>>
    /\ oneover_sqrta = <<>> /\ mab_over_sqrtmab_inv = <<>> /\ sigma_t = <<>>
    /\ n_sample = 0 /\ i = 0 /\ x_i = NoTensor /\ trace = <<>>
    /\ condition = <<>>
    /\ fwd = NoFwd
    /\ idx_read = {}
    /\ cell = "top" /\ runs = 0
    /\ root_files \in SUBSET EntryNames
    /\ root_dirs \in SUBSET (EntryNames \ root_files)
    /\ fakeclass = {}
    /\ listing = {}
    /\ root0 = [files |-> root_files, dirs |-> root_dirs]
    /\ GanFresh /\ num_batches = 1

RestructureNext ==
    \/ RestructureBegin
    \/ RestructureMove
    \/ RestructureEnd
    \/ RestructureRerun

RestructureSpec == RestructureInit /\ [][RestructureNext]_vars

\* the GAN notebook's training loop on its own: the dataset is restructured,
\* the train_loader yields at least one batch per epoch (ImageFolder refuses
\* an empty dataset)
GanInit ==
    /\ pc = "config"
    /\ error = "none"
    /\ T = 1 /\ beta1 = Rat(1, BetaDen) /\ beta2 = Rat(2, BetaDen)
    /\ beta_t = <<>> /\ alpha_t = <<>> /\ log_alpha_t = <<>>
    /\ alphabar_t = <<>> /\ sqrtab = <<>> /\ sqrtmab = <<>>
    /\ oneover_sqrta = <<>> /\ mab_over_sqrtmab_inv = <<>> /\ sigma_t = <<>>
    /\ n_sample = 0 /\ i = 0 /\ x_i = NoTensor /\ trace = <<>>
    /\ condition = <<>>
    /\ fwd = NoFwd
    /\ idx_read = {}
    /\ cell = "cell_done" /\ runs = 1
    /\ root_files = {} /\ root_dirs = {"fakeclass"} /\ fakeclass = {}
    /\ listing = {} /\ root0 = [files |-> {}, dirs |-> {"fakeclass"}]
    /\ GanFresh
    /\ num_batches \in 1 .. MaxBatches

GanNext ==
    \/ GanWhile
    \/ GanFor
    \/ DForward
    \/ DZeroGrad
    \/ DBackward
    \/ DStep
    \/ GForward
    \/ GZeroGrad
    \/ GBackward
    \/ GStep
    \/ AppendLosses
    \/ GEval
    \/ PrintLosses
    \/ Plot
    \/ GTrain

GanSpec == GanInit /\ [][GanNext]_vars

\* T >= 1 and 0 < beta1 < beta2 < 1
ValidConfig ==
    /\ T >= 1
    /\ RatLt(Zero, beta1) /\ RatLt(beta1, beta2) /\ RatLt(beta2, One)

Spec == Init /\ [][Next]_vars

\* the hyperparameters the schedule is specified for: T >= 1 and
\* 0 < beta1 < beta2 < 1
InitValid ==
    /\ Init
    /\ T >= 1
    /\ RatLt(Zero, beta1) /\ RatLt(beta1, beta2) /\ RatLt(beta2, One)

\* the interpreter runs a started loop to its end: an enabled loop step or
\* return is eventually taken.  Behaviours start from the valid
\* configurations (the loop's control does not read beta1 or beta2).
FairSpec ==
    /\ InitValid
    /\ [][Next]_vars
    /\ WF_vars(SampleStep) /\ WF_vars(SampleReturn)

(* ----------------------------- properties ------------------------------ *)
Constructed == pc \notin {"config", "config_error"}

InSample == pc \in {"sample_loop", "sample_done"} \/ (pc = "raised" /\ trace # <<>>)

\* C1: the reverse loop of sample visits the indices T, T-1, ..., 1 in this
\* order, each once (the k-th iteration is at index T-k+1), and when sample
\* has returned for T >= 1 every index down to 1 has been visited.
C1_ReverseOrder ==
    /\ \A k \in DOMAIN trace : trace[k].i = T - k + 1
    /\ pc = "sample_loop" => i = T - Len(trace)
    /\ (pc = "sample_done" /\ T >= 1) =>
          /\ Len(trace) = T
          /\ trace[Len(trace)].i = 1
          /\ x_i.op = "reverse"

C1_Witness ==
    pc = "sample_done" /\ T >= 3 /\ Len(trace) = T

\* C2: in sample the injected noise z is the constant 0 at step i = 1 and
\* only there; every step with i > 1 uses a tensor drawn by torch.randn; the
\* returned tensor's last update has z = 0.
C2_NoiseOnlyAboveOne ==
    /\ \A k \in DOMAIN trace :
          /\ (trace[k].z.op = "const" /\ trace[k].z.v = 0) <=> trace[k].i = 1
          /\ trace[k].i > 1 => trace[k].z.op = "randn"
    /\ (pc = "sample_done" /\ T >= 1) =>
          (x_i.z.op = "const" /\ x_i.z.v = 0)
    /\ (pc = "sample_done" /\ T >= 2) => x_i.x.z.op = "randn"

C2_Witness ==
    /\ pc = "sample_done" /\ T >= 2
    /\ trace[1].z.op = "randn" /\ trace[Len(trace)].z.op = "const"

\* C3: every call of the denoiser receives the current timestep: in sample
\* the call at step i has a timestep argument equal to i, in forward the
\* call has a timestep argument equal to the timesteps _ts used to corrupt x.
C3_DenoiserGetsTimestep ==
    /\ \A k \in DOMAIN trace :
          "t" \in DOMAIN trace[k].call /\ trace[k].call.t = trace[k].i
    /\ fwd.op = "forward" =>
          ("t" \in DOMAIN fwd.call /\ fwd.call.t = fwd.ts)

\* C4 (original): the condition the denoiser sees at every step of sample is
\* the condition the caller supplies.
C4_ConditionPassedThrough ==
    \A k \in DOMAIN trace : trace[k].call.c = condition

\* C4 (amended): sample has no condition parameter; the condition the
\* denoiser sees at every step is the labels 0 .. n_sample-1 of
\* torch.arange(n_sample), whatever labels the caller wants.
C4_ConditionIsArange ==
    \A k \in DOMAIN trace :
        /\ DOMAIN trace[k].call.c = 1 .. n_sample
        /\ \A b \in 1 .. n_sample : trace[k].call.c[b] = b - 1

C4_Witness ==
    /\ pc = "sample_done" /\ Len(trace) >= 2 /\ n_sample >= 2
    /\ condition # trace[1].call.c /\ trace[2].call.c = trace[1].call.c

\* C5: schedule construction fails, producing no schedule, whenever T < 1
\* or a beta is outside (0,1) or beta1 >= beta2.
C5_InvalidConfigRejected ==
    (pc # "config" /\ ~ValidConfig) =>
        (pc = "config_error" /\ beta_t = <<>> /\ sigma_t = <<>>)

\* C6: every schedule index read by forward and by sample lies in 1 .. T.
C6_IndexInRange ==
    idx_read \subseteq 1 .. T

C6_Witness ==
    \/ pc = "forward_done" /\ T >= 2 /\ idx_read = {1, T}
    \/ pc = "sample_done" /\ T >= 2 /\ idx_read = 1 .. T

C8_FailurePropagates ==
    \A k \in DOMAIN trace :
        ~trace[k].ret =>
            /\ k = Len(trace)
            /\ pc = "raised"
            /\ error = "DenoiserError"
            /\ x_i = trace[k].call.x

C8_Witness ==
    /\ pc = "raised" /\ T >= 3 /\ Len(trace) = 2
    /\ trace[1].ret /\ ~trace[2].ret /\ i = T - 1

\* C9: for T >= 1, a started sample whose denoiser calls all return makes
\* exactly T iterations and T denoiser calls and then returns; a started
\* sample always ends, by returning or by the denoiser's failure (checked
\* under FairSpec).
C9_ExactlyTCalls ==
    /\ []((pc = "sample_done" /\ T >= 1) =>
            (Len(trace) = T /\ \A k \in DOMAIN trace : trace[k].ret))
    /\ ((pc = "sample_loop") ~> (pc \in {"sample_done", "raised"}))

C9_Witness ==
    /\ pc = "sample_done" /\ T >= 2 /\ Len(trace) = T
    /\ \A k \in DOMAIN trace : trace[k].ret

\* C10: once constructed, the schedule is never written: no step of
\* forward or sample changes any of the schedule tensors.
C10_ScheduleReadOnly ==
    [][Constructed => UNCHANGED sched]_vars

C10_Witness ==
    /\ pc = "sample_done" /\ T >= 2 /\ ValidConfig
    /\ sigma_t[1] = Sqrt(beta_t[1]) /\ x_i.s = sigma_t[1]

\* C11 (original): corrupt is deterministic given the caller's arguments:
\* any call of forward with the same x (and c) returns the x_t this call
\* computed, whatever forward draws.
C11_SameArgsSameResult ==
    fwd.op = "forward" =>
        \A ts \in [DOMAIN fwd.x -> TsRange], eps \in [DOMAIN fwd.x -> Noise] :
            Corrupt(fwd.x, ts, eps) = fwd.call.x

\* C11 (amended): x_t is a function of the schedule, x, the timesteps _ts
\* and the noise eps only, where _ts (in 1 .. T) and eps are drawn inside
\* forward and the caller supplies x and c alone.
C11_FunctionOfOwnDraws ==
    fwd.op = "forward" =>
        /\ DOMAIN fwd.ts = DOMAIN fwd.x /\ DOMAIN fwd.eps = DOMAIN fwd.x
        /\ DOMAIN fwd.call.x = DOMAIN fwd.x
        /\ \A b \in DOMAIN fwd.x :
              /\ fwd.ts[b] \in 1 .. T /\ fwd.eps[b] \in Noise
              /\ fwd.call.x[b] =
                    [op |-> "corrupt", a |-> sqrtab[fwd.ts[b]], x |-> fwd.x[b],
                     m |-> sqrtmab[fwd.ts[b]], eps |-> fwd.eps[b]]

C11_Witness ==
    /\ pc = "forward_done" /\ ValidConfig /\ Len(fwd.x) = 2
    /\ fwd.ts[1] # fwd.ts[2]
    /\ fwd.call.x[1].a # fwd.call.x[2].a

\* C12: a completed reverse step at index i has replaced x by
\* (1/sqrt(alpha_i)) * (x - eps * (1 - alpha_i)/sqrt(1 - alphabar_i))
\* + sqrt(beta_i) * z, with the schedule values of index i itself, the x the
\* denoiser was called on, the eps it returned and the z of the step (stated
\* of the step made last, in every state a step leads to).
C12_ReverseUpdate ==
    (trace # <<>> /\ trace[Len(trace)].ret) =>
        LET last == trace[Len(trace)]
            j    == last.i
        IN  x_i = [op  |-> "reverse",
                   a   |-> Div(One, Sqrt(alpha_t[j])),
                   x   |-> last.call.x,
                   eps |-> last.eps,
                   m   |-> Div(Sub(One, alpha_t[j]),
                               Sqrt(Sub(One, alphabar_t[j]))),
                   s   |-> Sqrt(beta_t[j]),
                   z   |-> last.z]

C12_Witness ==
    /\ pc = "sample_done" /\ ValidConfig /\ T >= 2 /\ Len(trace) = T
    /\ x_i.s = Sqrt(beta_t[1]) /\ x_i.x.s = Sqrt(beta_t[2])
    /\ x_i.s # x_i.x.s

\* C13: in forward, element b of x_t is
\* sqrt(alphabar_t) * x[b] + sqrt(1 - alphabar_t) * eps[b] with t = _ts[b],
\* the timestep of element b itself and of no other element.
C13_PerElementTimestep ==
    fwd.op = "forward" =>
        \A b \in DOMAIN fwd.call.x :
            /\ fwd.call.x[b].a = Sqrt(alphabar_t[fwd.ts[b]])
            /\ fwd.call.x[b].m = Sqrt(Sub(One, alphabar_t[fwd.ts[b]]))
            /\ fwd.call.x[b].x = fwd.x[b]
            /\ fwd.call.x[b].eps = fwd.eps[b]

C13_Witness ==
    /\ pc = "forward_done" /\ ValidConfig /\ Len(fwd.x) = 2
    /\ fwd.ts[1] = T /\ fwd.ts[2] = 1 /\ T >= 2
    /\ fwd.call.x[1].a = Sqrt(alphabar_t[T])
    /\ fwd.call.x[2].a = Sqrt(alphabar_t[1])

\* C14: for every T >= 1 each schedule sequence (beta, alpha, log alpha,
\* alphabar, sqrtab, sqrtmab, oneover_sqrta, mab_over_sqrtmab_inv, sigma) has
\* the T + 1 entries of the indices 0 .. T.
C14_ScheduleLength ==
    (Constructed /\ T >= 1) =>
        \A q \in {beta_t, alpha_t, log_alpha_t, alphabar_t, sqrtab, sqrtmab,
                  oneover_sqrta, mab_over_sqrtmab_inv, sigma_t} :
            /\ DOMAIN q = 0 .. T
            /\ Cardinality(DOMAIN q) = T + 1

C14_Witness ==
    /\ pc = "idle" /\ T >= 2
    /\ Cardinality(DOMAIN beta_t) = T + 1
    /\ Cardinality(DOMAIN mab_over_sqrtmab_inv) = T + 1

C16_AlphabarNonIncreasing ==
    (Constructed /\ ValidConfig) =>
        \A t \in 0 .. (T - 1) :
            /\ IsRat(alphabar_t[t]) /\ IsRat(alphabar_t[t + 1])
            /\ ~RatLt(alphabar_t[t], alphabar_t[t + 1])

C16_Witness ==
    /\ pc = "idle" /\ ValidConfig /\ T >= 2
    /\ RatLt(alphabar_t[T], alphabar_t[1])
    /\ RatLt(alphabar_t[1], alphabar_t[0])

C18_LabelsAreClassIndices ==
    \A k \in DOMAIN trace :
        /\ trace[k].call.c = Arange(n_sample)
        /\ \A b \in DOMAIN trace[k].call.c :
              trace[k].call.c[b] \in 0 .. (NumClasses - 1)

C20_RestructureIdempotent ==
    (root0.dirs = {} /\ runs >= 1 /\ cell \in {"cell_done", "cell_raised"}) =>
        /\ cell = "cell_done"
        /\ root_dirs = {"fakeclass"}
        /\ root_files = {}
        /\ fakeclass = root0.files

\* C21: in every batch the discriminator update is complete before the
\* generator update starts, optimiser steps alternate D, G, and at every
\* optimiser step the gradients of the stepped network come from the current
\* batch's own loss alone (loss_d for D, loss_g for G): what an earlier
\* backward pass left has been zeroed.
C21_UpdateOrderAndFreshGrads ==
    /\ \A k \in DOMAIN steps :
          LET st == steps[k]
          IN  /\ st.opt = "D" =>
                    /\ st.grads = {[loss |-> "loss_d", epoch |-> st.epoch, i |-> st.i]}
                    /\ k > 1 => steps[k - 1].opt = "G"
              /\ st.opt = "G" =>
                    /\ st.grads = {[loss |-> "loss_g", epoch |-> st.epoch, i |-> st.i]}
                    /\ k > 1
                    /\ steps[k - 1].opt = "D"
                    /\ steps[k - 1].epoch = st.epoch /\ steps[k - 1].i = st.i
    /\ gan_pc \in {"g_forward", "g_zero_grad", "g_backward", "g_step"} =>
          /\ steps # <<>>
          /\ steps[Len(steps)].opt = "D"
          /\ steps[Len(steps)].epoch = epoch /\ steps[Len(steps)].i = batch_i

C21_Witness ==
    /\ gan_pc = "g_forward" /\ epoch = 0 /\ batch_i = 1 /\ Len(steps) = 3
    /\ steps[2].opt = "G" /\ steps[3].opt = "D"
    /\ steps[3].grads = {[loss |-> "loss_d", epoch |-> 0, i |-> 1]}
    /\ [loss |-> "loss_g", epoch |-> 0, i |-> 0] \in grad_G

\* C22: G is in training mode at every position of the loop except between
\* G.eval() and G.train() of an epoch (the printing and plotting), where it
\* is in evaluation mode; in particular it is in training mode through every
\* batch of every epoch and at every optimiser step.
C22_TrainingModeInBatches ==
    /\ G_training <=> gan_pc \notin {"print", "plot", "train"}
    /\ \A k \in DOMAIN steps : steps[k].training

C22_Witness ==
    /\ epoch = 1 /\ gan_pc = "g_step" /\ G_training
    /\ steps[1].epoch = 0 /\ steps[Len(steps)].epoch = 1
    /\ steps[Len(steps)].training

\* C23: the log line of an epoch shows under 'loss D' the mean of the
\* epoch's discriminator losses (dis_loss_arr) and under 'loss G' the mean
\* of the epoch's generator losses (gen_loss_arr), to three decimals.
C23_LogLineLabels ==
    printed.op = "line" =>
        /\ printed.loss_D = Format3f(Mean(dis_loss_arr))
        /\ printed.loss_G = Format3f(Mean(gen_loss_arr))

====
